---------------------------- MODULE Spec2Model ----------------------------
(***************************************************************************)
(* MediTrack (src/main14.py): the order / restock / payment workflow       *)
(* functions over the one shared sqlite connection, the st.cache_data      *)
(* read accessors, and the forms that call them.                           *)
(*                                                                         *)
(* db    : the tables as the shared connection sees them (committed rows   *)
(*         plus the rows of the open, not yet committed transaction)       *)
(* disk  : the tables as of the last conn.commit()                         *)
(* cache : the st.cache_data entry of every cached accessor, <<>> when     *)
(*         cleared or expired, <<snapshot>> when filled                    *)
(* last  : the last workflow call: its arguments, its result and the       *)
(*         values read before it ran                                       *)
(* session : st.session_state of the browser session that logs in, signs   *)
(*         up and logs out; the pages themselves take the acting pharmacy  *)
(*         or supplier as an input, any logged-in session may act          *)
(* threads : the script runs that are inside update_stock_after_order, one *)
(*         per concurrent session: the statement each has reached and its  *)
(*         local variables                                                 *)
(*                                                                         *)
(* A row id is the row's index in its table (sqlite rowid, no row is ever  *)
(* deleted).  Every store statement inside a try block may raise: the      *)
(* parameter f of a workflow operator is the number of the statement that  *)
(* raises, in execution order, 0 when none does.                           *)
(***************************************************************************)
EXTENDS Integers, Sequences, FiniteSets, TLC

VARIABLES db, disk, cache, last, session, threads

vars == <<db, disk, cache, last, session, threads>>

\* ---------------------------------------------------------------- bounds
\* the rows that the tables the forms insert into may hold together
MaxRows == 5

\* the drugs of a Drugs table that check_low_stock is first called on
MaxInitDrugs == 2

\* the rows of a PaymentMethods table that the program is started on
MaxInitMethods == 3

\* the orders one session places while its statements are followed one by one
MaxOrderCalls == 1

\* ------------------------------------------------------ program constants
LowStockThreshold == 100
RestockLevel      == 200
DefaultSupplierID == 1

\* ------------------------------------------------------------ input sets
DrugNames  == {"A", "B"}
Prices     == {10}
InitStocks == {50, 150}
Quantities == {50, 100}
NewStocks  == {100}
Emails     == {"e1", "e2"}
MethodNames == <<"COD", "UPI", "Net Banking", "Studd">>
\* stock_no values on both sides of the low-stock threshold
BoundaryStocks == {0, 100, 101, 200}

\* ------------------------------------------------------------- utilities
Ids(table) == 1..Len(table)

Min(S) == CHOOSE x \in S : \A y \in S : x <= y

St(d, k, c) == [db |-> d, disk |-> k, cache |-> c]

\* conn.commit(): the open transaction becomes durable
Commit(s) == [s EXCEPT !.disk = s.db]

\* c.fetchone() of SELECT ... FROM Drugs WHERE D_Name = ?: the first row, 0 when none
DrugByName(drugs, name) ==
    LET hits == {i \in Ids(drugs) : drugs[i].D_Name = name}
    IN  IF hits = {} THEN 0 ELSE Min(hits)

\* the result of a workflow function
Ret(s, ok, msg) == [s |-> s, ok |-> ok, msg |-> msg, id |-> 0]

RetId(s, ok, msg, id) == [s |-> s, ok |-> ok, msg |-> msg, id |-> id]


\* ------------------------------------------------------------- the tables
\* Payments.Notes and Payments.TransactionReference are formatted strings
\* (f"Order ID: {order_id}", f"Restock-{restock_id}"): a tag and the number
Tag(kind, n) == <<kind, n>>

\* the value of RestockOrders.PaymentStatus when the INSERT names no value
NoPaymentStatus == "NULL"

\* the seeding without its COUNT(*) test: the four methods are inserted again
initialize_payment_methods_unchecked(methods) == methods \o MethodNames

\* initialize_payment_methods(): seeds the four methods into an empty table
initialize_payment_methods(methods) ==
    IF Len(methods) = 0 THEN MethodNames ELSE methods

\* fetch_payment_methods()[name], .get(name): the id of the method, 0 (None) when absent
MethodId(methods, name) ==
    LET hits == {i \in Ids(methods) : methods[i] = name}
    IN  IF hits = {} THEN 0 ELSE Min(hits)

\* ------------------------------------------------------ cached accessors
\* @st.cache_data keeps one entry for every argument list of an accessor: the
\* key is the accessor's name and its argument, 0 for the accessors without
CacheNames ==
    {"fetch_all_drugs", "fetch_all_customers", "fetch_all_orders", "fetch_all_tickets",
     "fetch_all_restock_orders", "fetch_all_suppliers", "fetch_all_payments",
     "fetch_supplier_notifications", "check_low_stock"}

SupplierIds == 1..(MaxRows - 1)

CacheKeys ==
    {<<n, 0>> : n \in CacheNames \ {"fetch_supplier_notifications"}}
    \cup {<<"fetch_supplier_notifications", sid>> : sid \in SupplierIds}

\* <accessor>.clear(): every entry of the accessor
Clear(s, name) ==
    [s EXCEPT !.cache = [k \in CacheKeys |-> IF k[1] = name THEN <<>> ELSE s.cache[k]]]

\* the query with < for <=: a drug at exactly 100 is left out
LowStockRows_below(drugs) == SelectSeq(drugs, LAMBDA r : r.stock_no < LowStockThreshold)

\* SELECT * FROM Drugs WHERE stock_no <= 100
LowStockRows(drugs) == SelectSeq(drugs, LAMBDA r : r.stock_no <= LowStockThreshold)

\* what the accessor's query returns on the connection
Query(d, name, arg) ==
    CASE name = "fetch_all_drugs"          -> d.Drugs
      [] name = "fetch_all_customers"      -> d.Customers
      [] name = "fetch_all_orders"         -> d.Orders
      [] name = "fetch_all_tickets"        -> d.Tickets
      [] name = "fetch_all_restock_orders" -> d.RestockOrders
      [] name = "fetch_all_suppliers"      -> d.Suppliers
      [] name = "fetch_all_payments"       -> d.Payments
      [] name = "fetch_supplier_notifications" ->
             SelectSeq(d.SupplierNotifications, LAMBDA r : r.SupplierID = arg)
      [] name = "check_low_stock"          -> LowStockRows(d.Drugs)

\* the value a call of the accessor returns: the stored snapshot when there
\* is one, else the query's result
FetchFor(s, name, arg) ==
    IF s.cache[<<name, arg>>] = <<>> THEN Query(s.db, name, arg) ELSE s.cache[<<name, arg>>][1]

\* the state after a call of the accessor: the result is stored
FillFor(s, name, arg) ==
    IF s.cache[<<name, arg>>] = <<>>
    THEN [s EXCEPT !.cache[<<name, arg>>] = <<Query(s.db, name, arg)>>]
    ELSE s

Fetch(s, name) == FetchFor(s, name, 0)

Fill(s, name) == FillFor(s, name, 0)

\* ------------------------------------------------- update_stock_after_order
\* the stock check with <= for <: an order for all that is left is refused
update_stock_after_order_strict(s, drug_name, quantity, f) ==
    LET i  == DrugByName(s.db.Drugs, drug_name)
        s1 == [s EXCEPT !.db.Drugs[i].stock_no = @ - quantity]
    IN  IF f = 1 THEN Ret(s, FALSE, "Error updating stock")
        ELSE IF i = 0 THEN Ret(s, FALSE, "Drug not found.")
        ELSE IF s.db.Drugs[i].stock_no <= quantity
             THEN Ret(s, FALSE, "Not enough stock available.")
        ELSE IF f = 2 THEN Ret(s, FALSE, "Error updating stock")
        ELSE IF f = 3 THEN Ret(s1, FALSE, "Error updating stock")
        ELSE Ret(Clear(Commit(s1), "fetch_all_drugs"), TRUE, "Stock updated successfully.")

\* statements: 1 SELECT, 2 UPDATE, 3 commit
update_stock_after_order(s, drug_name, quantity, f) ==
    LET i  == DrugByName(s.db.Drugs, drug_name)
        s1 == [s EXCEPT !.db.Drugs[i].stock_no = @ - quantity]
    IN  IF f = 1 THEN Ret(s, FALSE, "Error updating stock")
        ELSE IF i = 0 THEN Ret(s, FALSE, "Drug not found.")
        ELSE IF s.db.Drugs[i].stock_no < quantity THEN Ret(s, FALSE, "Not enough stock available.")
        ELSE IF f = 2 THEN Ret(s, FALSE, "Error updating stock")
        ELSE IF f = 3 THEN Ret(s1, FALSE, "Error updating stock")
        ELSE Ret(Clear(Commit(s1), "fetch_all_drugs"), TRUE, "Stock updated successfully.")

\* ----------------------------------------------------------- add_new_order
\* create_payment is called at line 321 and defined nowhere in the program:
\* evaluating the name raises NameError, which add_new_order's handler catches
create_payment(s, pharmacy_id, supplier_id, amount, payment_method_id, status, notes) ==
    [s |-> s, raised |-> TRUE, ok |-> FALSE, id |-> 0]

\* statements: 1-3 update_stock_after_order, 4 INSERT Orders, 5 SELECT D_Price
add_new_order(s, pharmacy_id, items, quantity, payment_method, f) ==
    LET r   == update_stock_after_order(s, items, quantity, f)
        s1  == [r.s EXCEPT !.db.Orders = Append(@, [O_Items |-> items, O_Qty |-> quantity])]
        order_id   == Len(s1.db.Orders)
        drug_price == s1.db.Drugs[DrugByName(s1.db.Drugs, items)].D_Price
        amount     == drug_price * quantity
        payment_method_id == MethodId(s1.db.PaymentMethods, payment_method)
        p   == create_payment(s1, pharmacy_id, DefaultSupplierID, amount, payment_method_id,
                              "Pending", Tag("Order ID", order_id))
    IN  IF ~r.ok THEN Ret(r.s, FALSE, r.msg)
        ELSE IF f = 4 THEN Ret(r.s, FALSE, "Error")
        ELSE IF f = 5 THEN Ret(s1, FALSE, "Error")
        ELSE IF p.raised THEN Ret(p.s, FALSE, "Error: name create_payment is not defined")
        ELSE IF p.ok
             THEN Ret(Clear(Clear(Commit(p.s), "fetch_all_orders"), "fetch_all_payments"),
                      TRUE, "Order added successfully with payment!")
             ELSE Ret(p.s, FALSE, "Error")

\* ------------------------------------- add_new_order, statement by statement
\* the same call as the steps a session's thread takes on the shared
\* connection, other sessions' statements running in between

\* update_stock_after_order up to its stock check: statement 1, the SELECT;
\* ok when the drug was found with current_stock >= quantity
stock_select(s, drug_name, quantity, f) ==
    LET i == DrugByName(s.db.Drugs, drug_name)
    IN  IF f = 1 THEN Ret(s, FALSE, "Error updating stock")
        ELSE IF i = 0 THEN Ret(s, FALSE, "Drug not found.")
        ELSE IF s.db.Drugs[i].stock_no < quantity THEN Ret(s, FALSE, "Not enough stock available.")
        ELSE RetId(s, TRUE, "", i)

\* statement 2: UPDATE Drugs SET stock_no = stock_no - ? WHERE D_id = ?
stock_update(s, drug_id, quantity, f) ==
    IF f = 2 THEN Ret(s, FALSE, "Error updating stock")
    ELSE Ret([s EXCEPT !.db.Drugs[drug_id].stock_no = @ - quantity], TRUE, "")

\* statement 3, the commit, and fetch_all_drugs.clear(); then add_new_order
\* after its update_stock_after_order call: 4 INSERT Orders, 5 SELECT D_Price,
\* create_payment
order_finish(s, pharmacy_id, items, quantity, payment_method, f) ==
    LET s0  == Clear(Commit(s), "fetch_all_drugs")
        s1  == [s0 EXCEPT !.db.Orders = Append(@, [O_Items |-> items, O_Qty |-> quantity])]
        order_id   == Len(s1.db.Orders)
        drug_price == s1.db.Drugs[DrugByName(s1.db.Drugs, items)].D_Price
        amount     == drug_price * quantity
        payment_method_id == MethodId(s1.db.PaymentMethods, payment_method)
        p   == create_payment(s1, pharmacy_id, DefaultSupplierID, amount, payment_method_id,
                              "Pending", Tag("Order ID", order_id))
    IN  IF f = 3 THEN Ret(s, FALSE, "Error updating stock")
        ELSE IF f = 4 THEN Ret(s0, FALSE, "Error")
        ELSE IF f = 5 THEN Ret(s1, FALSE, "Error")
        ELSE IF p.raised THEN Ret(p.s, FALSE, "Error: name create_payment is not defined")
        ELSE IF p.ok
             THEN Ret(Clear(Clear(Commit(p.s), "fetch_all_orders"), "fetch_all_payments"),
                      TRUE, "Order added successfully with payment!")
             ELSE Ret(p.s, FALSE, "Error")

\* ---------------------------------------------------- create_restock_order
\* the Ticket keyed by its own row number for c.lastrowid of the RestockOrder
create_restock_order_own_key(s, supplier_id, drug_id, quantity, pharmacy_id, f) ==
    LET s1 == [s EXCEPT !.db.RestockOrders =
                   Append(@, [SupplierID |-> supplier_id, DrugID |-> drug_id,
                              Quantity |-> quantity, Status |-> "Pending",
                              PaymentStatus |-> NoPaymentStatus])]
        restock_id == Len(s1.db.RestockOrders)
        s2 == [s1 EXCEPT !.db.Tickets =
                   Append(@, [RestockID |-> Len(s1.db.Tickets) + 1,
                              SupplierID |-> supplier_id, Status |-> "Open"])]
    IN  IF f = 1 THEN Ret(s, FALSE, "Error")
        ELSE IF f = 2 THEN Ret(s1, FALSE, "Error")
        ELSE IF f = 3 THEN Ret(s2, FALSE, "Error")
        ELSE RetId(Clear(Clear(Clear(Commit(s2), "fetch_all_tickets"),
                               "fetch_all_restock_orders"), "check_low_stock"),
                   TRUE, "ok", restock_id)

\* statements: 1 INSERT RestockOrders, 2 INSERT Tickets, 3 commit
create_restock_order(s, supplier_id, drug_id, quantity, pharmacy_id, f) ==
    LET s1 == [s EXCEPT !.db.RestockOrders =
                   Append(@, [SupplierID |-> supplier_id, DrugID |-> drug_id,
                              Quantity |-> quantity, Status |-> "Pending",
                              PaymentStatus |-> NoPaymentStatus])]
        restock_id == Len(s1.db.RestockOrders)
        s2 == [s1 EXCEPT !.db.Tickets =
                   Append(@, [RestockID |-> restock_id, SupplierID |-> supplier_id,
                              Status |-> "Open"])]
    IN  IF f = 1 THEN Ret(s, FALSE, "Error")
        ELSE IF f = 2 THEN Ret(s1, FALSE, "Error")
        ELSE IF f = 3 THEN Ret(s2, FALSE, "Error")
        ELSE RetId(Clear(Clear(Clear(Commit(s2), "fetch_all_tickets"),
                               "fetch_all_restock_orders"), "check_low_stock"),
                   TRUE, "ok", restock_id)

\* -------------------------------------------------- create_restock_payment
\* UPDATE RestockOrders SET PaymentStatus = ? WHERE RestockID = ?
SetPaymentStatus(orders, restock_id, status) ==
    [i \in Ids(orders) |->
        IF i = restock_id THEN [orders[i] EXCEPT !.PaymentStatus = status] ELSE orders[i]]

\* the reference and the UPDATE keyed by the payment id for the restock id
create_restock_payment_own_key(s, pharmacy_id, supplier_id, amount, payment_method_id, restock_id, status, notes, f) ==
    LET payment_id == Len(s.db.Payments) + 1
        s1 == [s EXCEPT !.db.Payments =
                   Append(@, [PharmacyID |-> pharmacy_id, SupplierID |-> supplier_id,
                              Amount |-> amount, PaymentMethodID |-> payment_method_id,
                              Status |-> status, Notes |-> notes,
                              TransactionReference |-> Tag("Restock", payment_id)])]
        s2 == [s1 EXCEPT !.db.RestockOrders = SetPaymentStatus(@, payment_id, status)]
        s3 == Commit(s2)
        s4 == [s3 EXCEPT !.db.SupplierNotifications =
                   Append(@, [SupplierID |-> supplier_id, RelatedEntityType |-> "Payment",
                              RelatedEntityID |-> payment_id, IsRead |-> FALSE])]
    IN  IF f = 1 THEN Ret(s, FALSE, "Error")
        ELSE IF f = 2 THEN Ret(s1, FALSE, "Error")
        ELSE IF f = 3 THEN Ret(s2, FALSE, "Error")
        ELSE IF f = 4 THEN Ret(s3, FALSE, "Error")
        ELSE IF f = 5 THEN Ret(s4, FALSE, "Error")
        ELSE RetId(Commit(s4), TRUE, "ok", payment_id)

\* statements: 1 INSERT Payments, 2 UPDATE RestockOrders, 3 commit,
\*             4 INSERT SupplierNotifications, 5 commit
create_restock_payment(s, pharmacy_id, supplier_id, amount, payment_method_id, restock_id, status, notes, f) ==
    LET s1 == [s EXCEPT !.db.Payments =
                   Append(@, [PharmacyID |-> pharmacy_id, SupplierID |-> supplier_id,
                              Amount |-> amount, PaymentMethodID |-> payment_method_id,
                              Status |-> status, Notes |-> notes,
                              TransactionReference |-> Tag("Restock", restock_id)])]
        payment_id == Len(s1.db.Payments)
        s2 == [s1 EXCEPT !.db.RestockOrders = SetPaymentStatus(@, restock_id, status)]
        s3 == Commit(s2)
        s4 == [s3 EXCEPT !.db.SupplierNotifications =
                   Append(@, [SupplierID |-> supplier_id, RelatedEntityType |-> "Payment",
                              RelatedEntityID |-> payment_id, IsRead |-> FALSE])]
    IN  IF f = 1 THEN Ret(s, FALSE, "Error")
        ELSE IF f = 2 THEN Ret(s1, FALSE, "Error")
        ELSE IF f = 3 THEN Ret(s2, FALSE, "Error")
        ELSE IF f = 4 THEN Ret(s3, FALSE, "Error")
        ELSE IF f = 5 THEN Ret(s4, FALSE, "Error")
        ELSE RetId(Commit(s4), TRUE, "ok", payment_id)

\* ------------------------------------------------------- update_drug_stock
\* UPDATE Drugs SET stock_no = 200 WHERE D_id = ?
SetStock(drugs, drug_id) ==
    [i \in Ids(drugs) |->
        IF drugs[i].D_id = drug_id THEN [drugs[i] EXCEPT !.stock_no = RestockLevel]
        ELSE drugs[i]]

\* the UPDATE without its PaymentStatus column
DeliverOrders_status_only(orders, drug_id) ==
    [i \in Ids(orders) |->
        IF orders[i].DrugID = drug_id THEN [orders[i] EXCEPT !.Status = "Delivered"]
        ELSE orders[i]]

\* UPDATE RestockOrders SET Status = 'Delivered', PaymentStatus = 'Completed' WHERE DrugID = ?
DeliverOrders(orders, drug_id) ==
    [i \in Ids(orders) |->
        IF orders[i].DrugID = drug_id
        THEN [orders[i] EXCEPT !.Status = "Delivered", !.PaymentStatus = "Completed"]
        ELSE orders[i]]

\* the UPDATE with another word for the closed state
CloseTickets_resolved(tickets, orders, drug_id) ==
    [i \in Ids(tickets) |->
        IF \E r \in Ids(orders) : r = tickets[i].RestockID /\ orders[r].DrugID = drug_id
        THEN [tickets[i] EXCEPT !.Status = "Resolved"]
        ELSE tickets[i]]

\* UPDATE Tickets SET Status = 'Closed'
\*  WHERE RestockID IN (SELECT RestockID FROM RestockOrders WHERE DrugID = ?)
CloseTickets(tickets, orders, drug_id) ==
    [i \in Ids(tickets) |->
        IF \E r \in Ids(orders) : r = tickets[i].RestockID /\ orders[r].DrugID = drug_id
        THEN [tickets[i] EXCEPT !.Status = "Closed"]
        ELSE tickets[i]]

\* a confirmation that also marks Completed the Payments of the drug's
\* RestockOrders
update_drug_stock_settles_payments(s, drug_id, f) ==
    LET s1 == [s  EXCEPT !.db.Drugs = SetStock(@, drug_id)]
        s2 == [s1 EXCEPT !.db.RestockOrders = DeliverOrders(@, drug_id)]
        s3 == [s2 EXCEPT !.db.Tickets = CloseTickets(@, s2.db.RestockOrders, drug_id)]
        s4 == [s3 EXCEPT !.db.Payments =
                   [p \in Ids(@) |->
                       IF \E r \in Ids(s.db.RestockOrders) :
                              /\ s.db.RestockOrders[r].DrugID = drug_id
                              /\ @[p].TransactionReference = Tag("Restock", r)
                       THEN [@[p] EXCEPT !.Status = "Completed"]
                       ELSE @[p]]]
    IN  IF f = 1 THEN Ret(s, FALSE, "Error")
        ELSE IF f = 2 THEN Ret(s1, FALSE, "Error")
        ELSE IF f = 3 THEN Ret(s2, FALSE, "Error")
        ELSE IF f = 4 THEN Ret(s4, FALSE, "Error")
        ELSE Ret(Clear(Clear(Clear(Clear(Commit(s4), "fetch_all_drugs"), "fetch_all_tickets"),
                             "fetch_all_restock_orders"), "check_low_stock"),
                 TRUE, "ok")

\* statements: 1 UPDATE Drugs, 2 UPDATE RestockOrders, 3 UPDATE Tickets, 4 commit
update_drug_stock(s, drug_id, f) ==
    LET s1 == [s  EXCEPT !.db.Drugs = SetStock(@, drug_id)]
        s2 == [s1 EXCEPT !.db.RestockOrders = DeliverOrders(@, drug_id)]
        s3 == [s2 EXCEPT !.db.Tickets = CloseTickets(@, s2.db.RestockOrders, drug_id)]
    IN  IF f = 1 THEN Ret(s, FALSE, "Error")
        ELSE IF f = 2 THEN Ret(s1, FALSE, "Error")
        ELSE IF f = 3 THEN Ret(s2, FALSE, "Error")
        ELSE IF f = 4 THEN Ret(s3, FALSE, "Error")
        ELSE Ret(Clear(Clear(Clear(Clear(Commit(s3), "fetch_all_drugs"), "fetch_all_tickets"),
                             "fetch_all_restock_orders"), "check_low_stock"),
                 TRUE, "ok")

\* ---------------------------------------------------------- account tables
\* the UNIQUE constraint on the email column: sqlite3.IntegrityError
EmailExists(table, email) == \E i \in Ids(table) : table[i].Email = email

\* statements: 1 INSERT PharmacyPayments, 2 commit
add_pharmacy_payment(s, pharmacy_id, payment_method_id, is_default, f) ==
    LET s1 == [s EXCEPT !.db.PharmacyPayments =
                   Append(@, [PharmacyID |-> pharmacy_id,
                              PaymentMethodID |-> payment_method_id,
                              IsDefault |-> is_default])]
    IN  IF f = 1 THEN Ret(s, FALSE, "Error")
        ELSE IF f = 2 THEN Ret(s1, FALSE, "Error")
        ELSE Ret(Commit(s1), TRUE, "ok")

\* statements: 1 INSERT Customers, 2 commit
add_new_customer(s, email, f) ==
    LET s1 == [s EXCEPT !.db.Customers = Append(@, [Email |-> email])]
    IN  IF f = 1 THEN Ret(s, FALSE, "Error")
        ELSE IF EmailExists(s.db.Customers, email)
             THEN Ret(s, FALSE, "Error: Email already exists.")
        ELSE IF f = 2 THEN Ret(s1, FALSE, "Error")
        ELSE Ret(Clear(Commit(s1), "fetch_all_customers"), TRUE, "ok")

\* statements: 1 INSERT RetailPharmacies, 2 commit, 3 the SELECT of
\* fetch_payment_methods() (run when its cached entry has expired),
\* 4-5 add_pharmacy_payment, whose result is not looked at
\* payment_methods["COD"] raises KeyError when the method is absent
add_new_retail_pharmacist(s, email, f) ==
    LET s1 == [s EXCEPT !.db.RetailPharmacies = Append(@, [Email |-> email])]
        pharmacy_id == Len(s1.db.RetailPharmacies)
        s2 == Commit(s1)
        cod == MethodId(s2.db.PaymentMethods, "COD")
        p  == add_pharmacy_payment(s2, pharmacy_id, cod, TRUE, IF f > 3 THEN f - 3 ELSE 0)
    IN  IF f = 1 THEN Ret(s, FALSE, "Error")
        ELSE IF EmailExists(s.db.RetailPharmacies, email)
             THEN Ret(s, FALSE, "Error: Email already exists.")
        ELSE IF f = 2 THEN Ret(s1, FALSE, "Error")
        ELSE IF f = 3 THEN Ret(s2, FALSE, "Error")
        ELSE IF cod = 0 THEN Ret(s2, FALSE, "Error: COD")
        ELSE RetId(p.s, TRUE, "ok", pharmacy_id)

\* statements: 1 INSERT Suppliers, 2 commit
add_new_supplier(s, email, f) ==
    LET s1 == [s EXCEPT !.db.Suppliers = Append(@, [Email |-> email])]
        supplier_id == Len(s1.db.Suppliers)
    IN  IF f = 1 THEN Ret(s, FALSE, "Error")
        ELSE IF EmailExists(s.db.Suppliers, email)
             THEN Ret(s, FALSE, "Error: Email already exists.")
        ELSE IF f = 2 THEN Ret(s1, FALSE, "Error")
        ELSE RetId(Clear(Commit(s1), "fetch_all_suppliers"), TRUE, "ok", supplier_id)

\* ------------------------------------------------------------------ state
Cur == St(db, disk, cache)

\* what the last call read before it ran: the row counts, and the stock of
\* the drug it names (-1 when it names none)
Pre(d, i) ==
    [stock     |-> IF i \in Ids(d.Drugs) THEN d.Drugs[i].stock_no ELSE -1,
     nOrders   |-> Len(d.Orders),
     nPayments |-> Len(d.Payments),
     nRestock  |-> Len(d.RestockOrders),
     nTickets  |-> Len(d.Tickets),
     nNotes    |-> Len(d.SupplierNotifications)]

NoCall ==
    [op |-> "none", ok |-> FALSE, msg |-> "", drug |-> 0, qty |-> 0, sup |-> 0,
     pharm |-> 0, id |-> 0, pay |-> "none", pay_id |-> 0, hit |-> FALSE, ret |-> <<>>,
     pre |-> Pre([Drugs |-> <<>>, Orders |-> <<>>, Payments |-> <<>>, RestockOrders |-> <<>>,
                  Tickets |-> <<>>, SupplierNotifications |-> <<>>], 0)]

\* a handler that leaves the store as s, with the session state sess
StepAs(s, call, sess) ==
    /\ db' = s.db
    /\ disk' = s.disk
    /\ cache' = s.cache
    /\ last' = call
    /\ session' = sess
    /\ threads' = threads

Step(s, call) == StepAs(s, call, session)

EmptyCache == [k \in CacheKeys |-> <<>>]

\* st.session_state without a key: .get(key, False) of an absent flag is
\* False, an absent identifier is 0
NoSession ==
    [retail_pharmacist_logged_in |-> FALSE, supplier_logged_in |-> FALSE,
     pharmacy_id |-> 0, supplier_id |-> 0]

\* the concurrent sessions whose script runs are followed statement by statement
Threads == {1, 2}

\* no script run is inside update_stock_after_order; calls counts the orders
\* the session has submitted
Idle == [pc |-> "idle", drug_name |-> "", quantity |-> 0, drug_id |-> 0, current_stock |-> 0,
         pharmacy_id |-> 0, supplier_id |-> 0, restock_id |-> 0, calls |-> 0]

\* the thread of a session whose call has returned
Returned(th) == [Idle EXCEPT !.calls = th.calls]

NoThreads == [t \in Threads |-> Idle]

InitDrugTables ==
    {<<>>} \cup {<<[D_id |-> 1, D_Name |-> "A", D_Price |-> p, stock_no |-> n]>> :
                    p \in Prices, n \in InitStocks}

Init ==
    /\ \E drugs \in InitDrugTables :
         db = [Drugs |-> drugs, Orders |-> <<>>, Payments |-> <<>>, RestockOrders |-> <<>>,
               Tickets |-> <<>>, SupplierNotifications |-> <<>>, Customers |-> <<>>,
               Suppliers |-> <<[Email |-> "e1"]>>,
               RetailPharmacies |-> <<[Email |-> "e1"]>>,
               PharmacyPayments |-> <<>>,
               PaymentMethods |-> initialize_payment_methods(<<>>)]
    /\ disk = db
    /\ cache = EmptyCache
    /\ last = NoCall
    /\ session = NoSession
    /\ threads = NoThreads

\* the rows of the tables a form inserts into
Rows(d) ==
    Len(d.Drugs) + Len(d.Orders) + Len(d.RestockOrders) + Len(d.Customers)
    + Len(d.Suppliers) + Len(d.RetailPharmacies) + Len(d.PharmacyPayments)

\* a form may still add a row
Room == Rows(db) < MaxRows

\* ---------------------------------------------------------------- actions
\* add_order_form: the drug is picked from the cached fetch_all_drugs names
\* (None when there is none), by a logged-in pharmacist
AddOrderForm ==
    \E pharmacy_id \in Ids(db.RetailPharmacies), quantity \in Quantities, f \in 0..5 :
      LET s0    == Fill(Cur, "fetch_all_drugs")
          shown == Fetch(Cur, "fetch_all_drugs")
          names == IF Len(shown) = 0 THEN {"None"} ELSE {shown[i].D_Name : i \in Ids(shown)}
      IN  \E items \in names :
            LET r == add_new_order(s0, pharmacy_id, items, quantity, "COD", f)
                i == DrugByName(db.Drugs, items)
            IN  /\ Room
                /\ Step(r.s, [NoCall EXCEPT !.op = "add_new_order", !.ok = r.ok,
                                            !.msg = r.msg, !.drug = i, !.qty = quantity,
                                            !.pharm = pharmacy_id,
                                            !.pre = Pre(db, i)])

\* add_customer_form
AddCustomerForm ==
    \E email \in Emails, f \in 0..2 :
      LET r == add_new_customer(Cur, email, f)
      IN  /\ Room
          /\ Step(r.s, [NoCall EXCEPT !.op = "add_new_customer", !.ok = r.ok, !.msg = r.msg,
                                      !.pre = Pre(db, 0)])

\* signup_retail_pharmacist: a success logs the session in
SignupRetailPharmacist ==
    \E email \in Emails, f \in 0..5 :
      LET r == add_new_retail_pharmacist(Cur, email, f)
      IN  /\ Room
          /\ StepAs(r.s, [NoCall EXCEPT !.op = "add_new_retail_pharmacist", !.ok = r.ok,
                                        !.msg = r.msg, !.id = r.id,
                                        !.pre = Pre(db, 0)],
                    IF r.ok THEN [session EXCEPT !.retail_pharmacist_logged_in = TRUE,
                                                 !.pharmacy_id = r.id]
                    ELSE session)

\* signup_supplier: a success logs the session in
SignupSupplier ==
    \E email \in Emails, f \in 0..2 :
      LET r == add_new_supplier(Cur, email, f)
      IN  /\ Room
          /\ StepAs(r.s, [NoCall EXCEPT !.op = "add_new_supplier", !.ok = r.ok, !.msg = r.msg,
                                        !.id = r.id, !.pre = Pre(db, 0)],
                    IF r.ok THEN [session EXCEPT !.supplier_logged_in = TRUE,
                                                 !.supplier_id = r.id]
                    ELSE session)

\* Manage Payments: add_pharmacy_payment by a logged-in pharmacist
ManagePayments ==
    \E pharmacy_id \in Ids(db.RetailPharmacies), m \in Ids(db.PaymentMethods),
       is_default \in BOOLEAN, f \in 0..2 :
      LET r == add_pharmacy_payment(Cur, pharmacy_id, m, is_default, f)
      IN  /\ Room
          /\ Step(r.s, [NoCall EXCEPT !.op = "add_pharmacy_payment", !.ok = r.ok,
                                      !.msg = r.msg, !.pharm = pharmacy_id,
                                      !.pre = Pre(db, 0)])

\* Low Stock menu and restock_ticket_form, submitted by a logged-in pharmacist:
\* the form is shown when the cached check_low_stock is not empty, the drug is
\* picked from the cached fetch_all_drugs rows with stock_no <= 100 and looked
\* up by name; create_restock_order, then the price and create_restock_payment.
\* f: 1-3 raise in create_restock_order, 4-8 in create_restock_payment
RestockTicketForm ==
    \E pharmacy_id \in Ids(db.RetailPharmacies), supplier_id \in Ids(db.Suppliers),
       quantity \in Quantities, f \in 0..8 :
      LET s0    == Fill(Fill(Cur, "check_low_stock"), "fetch_all_drugs")
          low   == Fetch(Cur, "check_low_stock")
          shown == LowStockRows(Fetch(Cur, "fetch_all_drugs"))
      IN  /\ Len(low) > 0
          /\ \E k \in Ids(shown) :
               LET selected_drug_name == shown[k].D_Name
                   i  == DrugByName(db.Drugs, selected_drug_name)
                   selected_drug_id == db.Drugs[i].D_id
                   r  == create_restock_order(s0, supplier_id, selected_drug_id, quantity,
                                              pharmacy_id, IF f <= 3 THEN f ELSE 0)
                   drug_price == r.s.db.Drugs[i].D_Price
                   amount == drug_price * quantity
                   p  == create_restock_payment(r.s, pharmacy_id, supplier_id, amount,
                                                MethodId(db.PaymentMethods, "COD"), r.id,
                                                "Pending", Tag("Restock for", selected_drug_name),
                                                IF f > 3 THEN f - 3 ELSE 0)
                   call == [NoCall EXCEPT !.op = "restock_ticket_form", !.ok = r.ok,
                                          !.msg = r.msg, !.drug = i, !.qty = quantity,
                                          !.sup = supplier_id, !.pharm = pharmacy_id,
                                          !.id = r.id, !.pre = Pre(db, i)]
               IN  /\ Room
                   /\ IF r.ok
                      THEN Step(p.s, [call EXCEPT !.pay = IF p.ok THEN "ok" ELSE "failed",
                                                  !.pay_id = p.id])
                      ELSE Step(r.s, call)

\* Ticket Section of a logged-in supplier: a button for every ticket of the
\* supplier that is Open in the cached fetch_all_tickets; the drug is read
\* from the ticket's RestockOrder
TicketSection ==
    \E supplier_id \in Ids(db.Suppliers), f \in 0..4 :
      LET s0 == Fill(Cur, "fetch_all_tickets")
          tickets_df == Fetch(Cur, "fetch_all_tickets")
      IN  \E t \in Ids(tickets_df) :
            LET drug_id == db.RestockOrders[tickets_df[t].RestockID].DrugID
                r == update_drug_stock(s0, drug_id, f)
            IN  /\ tickets_df[t].SupplierID = supplier_id
                /\ tickets_df[t].Status = "Open"
                /\ Step(r.s, [NoCall EXCEPT !.op = "update_drug_stock", !.ok = r.ok,
                                            !.msg = r.msg, !.drug = drug_id, !.id = t,
                                            !.sup = supplier_id,
                                            !.pre = Pre(db, drug_id)])

\* Add New Drug of a logged-in supplier: INSERT, commit, fetch_all_drugs.clear()
AddNewDrug ==
    \E name \in DrugNames, price \in Prices, stock_no \in NewStocks :
      LET row == [D_id |-> Len(db.Drugs) + 1, D_Name |-> name, D_Price |-> price,
                  stock_no |-> stock_no]
          s1  == [Cur EXCEPT !.db.Drugs = Append(@, row)]
      IN  /\ Room
          /\ Step(Clear(Commit(s1), "fetch_all_drugs"),
                  [NoCall EXCEPT !.op = "add_new_drug", !.ok = TRUE, !.msg = "ok",
                                 !.drug = Len(db.Drugs) + 1, !.pre = Pre(db, 0)])

\* a DELETE of the supplier's notifications for the UPDATE
MarkRead_purge(notes, supplier_id) == SelectSeq(notes, LAMBDA r : r.SupplierID # supplier_id)

\* UPDATE SupplierNotifications SET IsRead = 1 WHERE SupplierID = ? AND IsRead = 0
MarkRead(notes, supplier_id) ==
    [i \in Ids(notes) |->
        IF notes[i].SupplierID = supplier_id THEN [notes[i] EXCEPT !.IsRead = TRUE]
        ELSE notes[i]]

\* View Notifications of a logged-in supplier: when the cached list is not
\* empty the rows are marked read and the connection commits
ViewNotifications ==
    \E supplier_id \in Ids(db.Suppliers) :
      LET s0 == FillFor(Cur, "fetch_supplier_notifications", supplier_id)
          notifications_df == FetchFor(Cur, "fetch_supplier_notifications", supplier_id)
          s1 == [s0 EXCEPT !.db.SupplierNotifications = MarkRead(@, supplier_id)]
      IN  Step(IF Len(notifications_df) > 0 THEN Commit(s1) ELSE s0,
               [NoCall EXCEPT !.op = "view_notifications", !.ok = TRUE, !.msg = "ok",
                              !.sup = supplier_id, !.pre = Pre(db, 0)])

\* the dashboards call the cached accessors
PharmacistDashboard ==
    Step(Fill(Fill(Fill(Fill(Fill(Fill(Cur, "fetch_all_drugs"), "fetch_all_customers"),
                   "fetch_all_suppliers"), "fetch_all_tickets"), "check_low_stock"),
              "fetch_all_orders"),
         [NoCall EXCEPT !.op = "dashboard", !.ok = TRUE, !.pre = Pre(db, 0)])

SupplierDashboard ==
    Step(Fill(Fill(Fill(Fill(Cur, "fetch_all_drugs"), "fetch_all_tickets"),
                   "fetch_all_restock_orders"), "check_low_stock"),
         [NoCall EXCEPT !.op = "dashboard", !.ok = TRUE, !.pre = Pre(db, 0)])

\* the ttl of a cached entry runs out
Expire ==
    \E k \in CacheKeys :
      /\ cache[k] # <<>>
      /\ cache' = [cache EXCEPT ![k] = <<>>]
      /\ UNCHANGED <<db, disk, last, session, threads>>

\* Low Stock menu of a logged-in pharmacist: check_low_stock(), and the form's
\* fetch_all_drugs() when the list is not empty
LowStockPage ==
    LET s0 == Fill(Cur, "check_low_stock")
    IN  /\ cache' = IF Len(Fetch(Cur, "check_low_stock")) > 0
                    THEN Fill(s0, "fetch_all_drugs").cache ELSE s0.cache
        /\ UNCHANGED <<db, disk, last, session, threads>>

\* a call of check_low_stock(): the stored snapshot when there is one, else
\* the query's rows, which are stored
CheckLowStock ==
    LET s0 == Fill(Cur, "check_low_stock")
    IN  Step(s0, [NoCall EXCEPT !.op = "check_low_stock", !.ok = TRUE,
                                !.hit = (cache[<<"check_low_stock", 0>>] # <<>>),
                                !.ret = Fetch(Cur, "check_low_stock"),
                                !.pre = Pre(db, 0)])

\* the Drugs tables check_low_stock may find: up to MaxInitDrugs drugs, D_id
\* the row number
BoundaryDrugTables ==
    UNION {[1..n -> [D_id : {0}, D_Name : DrugNames, D_Price : Prices,
                     stock_no : BoundaryStocks]] : n \in 0..MaxInitDrugs}

InitLowStock ==
    /\ \E drugs \in BoundaryDrugTables :
         db = [Drugs |-> [i \in Ids(drugs) |-> [drugs[i] EXCEPT !.D_id = i]],
               Orders |-> <<>>, Payments |-> <<>>, RestockOrders |-> <<>>,
               Tickets |-> <<>>, SupplierNotifications |-> <<>>, Customers |-> <<>>,
               Suppliers |-> <<[Email |-> "e1"]>>,
               RetailPharmacies |-> <<[Email |-> "e1"]>>,
               PharmacyPayments |-> <<>>,
               PaymentMethods |-> initialize_payment_methods(<<>>)]
    /\ disk = db
    /\ cache = EmptyCache
    /\ last = NoCall
    /\ session = NoSession
    /\ threads = NoThreads

\* the low-stock query, its cache entry and a new drug
NextLowStock ==
    \/ CheckLowStock
    \/ Expire
    \/ AddNewDrug

\* a script run reaches line 34: initialize_payment_methods(), which commits
\* when it has inserted; the call returns nothing
Startup ==
    LET n  == Len(db.PaymentMethods)
        s1 == [Cur EXCEPT !.db.PaymentMethods = initialize_payment_methods(@)]
    IN  Step(IF n = 0 THEN Commit(s1) ELSE s1,
             [NoCall EXCEPT !.op = "initialize_payment_methods", !.ok = TRUE,
                            !.ret = <<n>>, !.pre = Pre(db, 0)])

\* the PaymentMethods tables the program may be started on: up to
\* MaxInitMethods rows, the seeded names or another one
MethodTables ==
    UNION {[1..n -> {MethodNames[i] : i \in Ids(MethodNames)} \cup {"Card"}] :
              n \in 0..MaxInitMethods}

InitStartup ==
    /\ \E methods \in MethodTables :
         db = [Drugs |-> <<>>, Orders |-> <<>>, Payments |-> <<>>, RestockOrders |-> <<>>,
               Tickets |-> <<>>, SupplierNotifications |-> <<>>, Customers |-> <<>>,
               Suppliers |-> <<[Email |-> "e1"]>>,
               RetailPharmacies |-> <<[Email |-> "e1"]>>,
               PharmacyPayments |-> <<>>,
               PaymentMethods |-> methods]
    /\ disk = db
    /\ cache = EmptyCache
    /\ last = NoCall
    /\ session = NoSession
    /\ threads = NoThreads

\* the script runs of a program started on any small PaymentMethods table
NextStartup == Startup

\* logout with only the first of the two keys deleted
logout_first_key(sess) == [sess EXCEPT !.retail_pharmacist_logged_in = FALSE]

\* logout(): both login keys are deleted, the identifiers stay
logout(sess) ==
    [sess EXCEPT !.retail_pharmacist_logged_in = FALSE, !.supplier_logged_in = FALSE]

\* the Exit button: on_click=logout; the roles that were logged in are noted
Logout ==
    StepAs(Cur, [NoCall EXCEPT !.op = "logout", !.ok = TRUE,
                               !.pharm = IF session.retail_pharmacist_logged_in
                                         THEN session.pharmacy_id ELSE 0,
                               !.sup = IF session.supplier_logged_in
                                       THEN session.supplier_id ELSE 0,
                               !.pre = Pre(db, 0)],
           logout(session))

\* Login as Retail Pharmacist: the row with the typed email, and whether the
\* typed password equals the stored one
LoginRetailPharmacist ==
    \E email \in Emails, password_matches \in BOOLEAN :
      LET hits == {i \in Ids(db.RetailPharmacies) : db.RetailPharmacies[i].Email = email}
          found == hits # {} /\ password_matches
          id == IF hits = {} THEN 0 ELSE Min(hits)
      IN  StepAs(Cur, [NoCall EXCEPT !.op = "login_retail_pharmacist", !.ok = found,
                                     !.id = IF found THEN id ELSE 0, !.pre = Pre(db, 0)],
                 IF found THEN [session EXCEPT !.retail_pharmacist_logged_in = TRUE,
                                               !.pharmacy_id = id]
                 ELSE session)

\* Login as Supplier
LoginSupplier ==
    \E email \in Emails, password_matches \in BOOLEAN :
      LET hits == {i \in Ids(db.Suppliers) : db.Suppliers[i].Email = email}
          found == hits # {} /\ password_matches
          id == IF hits = {} THEN 0 ELSE Min(hits)
      IN  StepAs(Cur, [NoCall EXCEPT !.op = "login_supplier", !.ok = found,
                                     !.id = IF found THEN id ELSE 0, !.pre = Pre(db, 0)],
                 IF found THEN [session EXCEPT !.supplier_logged_in = TRUE,
                                               !.supplier_id = id]
                 ELSE session)

\* the pharmacist's menu is rendered: st.session_state.get(
\* "retail_pharmacist_logged_in", False) at line 608
PharmacistMenu ==
    /\ session.retail_pharmacist_logged_in
    /\ Step(Cur, [NoCall EXCEPT !.op = "pharmacist_menu", !.ok = TRUE,
                                !.pharm = session.pharmacy_id, !.pre = Pre(db, 0)])

\* the supplier's menu is rendered: line 768
SupplierMenu ==
    /\ session.supplier_logged_in
    /\ Step(Cur, [NoCall EXCEPT !.op = "supplier_menu", !.ok = TRUE,
                                !.sup = session.supplier_id, !.pre = Pre(db, 0)])

\* login, signup, the two menus and logout of one browser session
NextSession ==
    \/ LoginRetailPharmacist
    \/ LoginSupplier
    \/ SignupRetailPharmacist
    \/ SignupSupplier
    \/ PharmacistMenu
    \/ SupplierMenu
    \/ Logout

\* what a thread's add_new_order call reports when it returns
OrderReturn(t, th, r) ==
    [NoCall EXCEPT !.op = "add_new_order", !.ok = r.ok, !.msg = r.msg, !.drug = th.drug_id,
                   !.qty = th.quantity, !.pharm = th.pharmacy_id, !.id = t,
                   !.pre = [Pre(db, th.drug_id) EXCEPT !.stock = th.current_stock]]

\* session t submits add_order_form: add_new_order runs update_stock_after_order
\* up to the stock check and returns when the check fails
OrderSelect(t) ==
    \E pharmacy_id \in Ids(db.RetailPharmacies), quantity \in Quantities, f \in 0..1 :
      LET s0    == Fill(Cur, "fetch_all_drugs")
          shown == Fetch(Cur, "fetch_all_drugs")
          names == IF Len(shown) = 0 THEN {"None"} ELSE {shown[i].D_Name : i \in Ids(shown)}
      IN  \E items \in names :
            LET r  == stock_select(s0, items, quantity, f)
                th == [pc |-> "checked", drug_name |-> items, quantity |-> quantity,
                       drug_id |-> r.id,
                       current_stock |-> IF r.id = 0 THEN 0 ELSE db.Drugs[r.id].stock_no,
                       pharmacy_id |-> pharmacy_id, supplier_id |-> 0, restock_id |-> 0,
                       calls |-> threads[t].calls + 1]
            IN  /\ threads[t].pc = "idle"
                /\ threads[t].calls < MaxOrderCalls
                /\ Room
                /\ db' = r.s.db
                /\ disk' = r.s.disk
                /\ cache' = r.s.cache
                /\ session' = session
                /\ IF r.ok
                   THEN threads' = [threads EXCEPT ![t] = th] /\ last' = last
                   ELSE threads' = [threads EXCEPT ![t] = Returned(th)]
                        /\ last' = OrderReturn(t, th, r)

\* session t's UPDATE, on the stock the other sessions have left
OrderUpdate(t) ==
    \E f \in {0, 2} :
      LET th == threads[t]
          r  == stock_update(Cur, th.drug_id, th.quantity, f)
      IN  /\ th.pc = "checked"
          /\ db' = r.s.db
          /\ disk' = r.s.disk
          /\ cache' = r.s.cache
          /\ session' = session
          /\ IF r.ok
             THEN threads' = [threads EXCEPT ![t].pc = "updated"] /\ last' = last
             ELSE threads' = [threads EXCEPT ![t] = Returned(th)]
                  /\ last' = OrderReturn(t, th, r)

\* session t's commit and the rest of its add_new_order call
OrderFinish(t) ==
    \E f \in {0, 3, 4, 5} :
      LET th == threads[t]
          r  == order_finish(Cur, th.pharmacy_id, th.drug_name, th.quantity, "COD", f)
      IN  /\ th.pc = "updated"
          /\ db' = r.s.db
          /\ disk' = r.s.disk
          /\ cache' = r.s.cache
          /\ session' = session
          /\ threads' = [threads EXCEPT ![t] = Returned(th)]
          /\ last' = OrderReturn(t, th, r)

\* the store after one restock-ticket form for drug 1 went through: its
\* RestockOrder, Ticket, Payment and SupplierNotification, all committed
InitConcurrent ==
    /\ \E p \in Prices, n \in InitStocks, q \in Quantities :
         db = [Drugs |-> <<[D_id |-> 1, D_Name |-> "A", D_Price |-> p, stock_no |-> n]>>,
               Orders |-> <<>>,
               Payments |-> <<[PharmacyID |-> 1, SupplierID |-> 1, Amount |-> p * q,
                               PaymentMethodID |-> 1, Status |-> "Pending",
                               Notes |-> Tag("Restock for", "A"),
                               TransactionReference |-> Tag("Restock", 1)]>>,
               RestockOrders |-> <<[SupplierID |-> 1, DrugID |-> 1, Quantity |-> q,
                                    Status |-> "Pending", PaymentStatus |-> "Pending"]>>,
               Tickets |-> <<[RestockID |-> 1, SupplierID |-> 1, Status |-> "Open"]>>,
               SupplierNotifications |-> <<[SupplierID |-> 1, RelatedEntityType |-> "Payment",
                                            RelatedEntityID |-> 1, IsRead |-> FALSE]>>,
               Customers |-> <<>>,
               Suppliers |-> <<[Email |-> "e1"]>>,
               RetailPharmacies |-> <<[Email |-> "e1"]>>,
               PharmacyPayments |-> <<>>,
               PaymentMethods |-> initialize_payment_methods(<<>>)]
    /\ disk = db
    /\ cache = EmptyCache
    /\ last = NoCall
    /\ session = NoSession
    /\ threads = NoThreads

\* order placements of concurrent sessions, statement by statement, with
\* delivery confirmations in between
NextConcurrent ==
    \/ \E t \in Threads : OrderSelect(t)
    \/ \E t \in Threads : OrderUpdate(t)
    \/ \E t \in Threads : OrderFinish(t)
    \/ TicketSection

\* what a thread's restock-ticket form reports when its script run ends
FormReturn(th, r) ==
    [NoCall EXCEPT !.op = "restock_ticket_form", !.ok = r.ok, !.msg = r.msg,
                   !.drug = th.drug_id, !.qty = th.quantity, !.sup = th.supplier_id,
                   !.pharm = th.pharmacy_id, !.id = r.id, !.pre = Pre(db, th.drug_id)]

\* session t submits the restock-ticket form: the script run up to the return
\* of create_restock_order
FormCreateOrder(t) ==
    \E pharmacy_id \in Ids(db.RetailPharmacies), supplier_id \in Ids(db.Suppliers), quantity \in Quantities, f \in 0..3 :
      LET s0    == Fill(Fill(Cur, "check_low_stock"), "fetch_all_drugs")
          low   == Fetch(Cur, "check_low_stock")
          shown == LowStockRows(Fetch(Cur, "fetch_all_drugs"))
      IN  /\ Len(low) > 0
          /\ \E k \in Ids(shown) :
               LET selected_drug_name == shown[k].D_Name
                   i  == DrugByName(db.Drugs, selected_drug_name)
                   selected_drug_id == db.Drugs[i].D_id
                   r  == create_restock_order(s0, supplier_id, selected_drug_id, quantity,
                                              pharmacy_id, f)
                   th == [Idle EXCEPT !.pc = "ordered", !.drug_name = selected_drug_name,
                                      !.quantity = quantity, !.drug_id = selected_drug_id,
                                      !.pharmacy_id = pharmacy_id,
                                      !.supplier_id = supplier_id, !.restock_id = r.id,
                                      !.calls = threads[t].calls + 1]
               IN  /\ threads[t].pc = "idle"
                   /\ threads[t].calls < MaxOrderCalls
                   /\ Room
                   /\ db' = r.s.db
                   /\ disk' = r.s.disk
                   /\ cache' = r.s.cache
                   /\ session' = session
                   /\ IF r.ok
                      THEN threads' = [threads EXCEPT ![t] = th] /\ last' = last
                      ELSE threads' = [threads EXCEPT ![t] = Returned(th)]
                           /\ last' = FormReturn(th, r)

\* session t's script run after create_restock_order returned success: the
\* SELECT of D_Price and create_restock_payment, on the store the other
\* sessions have left
FormCreatePayment(t) ==
    \E f \in 0..5 :
      LET th == threads[t]
          drug_price == db.Drugs[th.drug_id].D_Price
          amount == drug_price * th.quantity
          p  == create_restock_payment(Cur, th.pharmacy_id, th.supplier_id, amount,
                                       MethodId(db.PaymentMethods, "COD"), th.restock_id,
                                       "Pending", Tag("Restock for", th.drug_name), f)
          r  == [ok |-> TRUE, msg |-> "ok", id |-> th.restock_id]
      IN  /\ th.pc = "ordered"
          /\ db' = p.s.db
          /\ disk' = p.s.disk
          /\ cache' = p.s.cache
          /\ session' = session
          /\ threads' = [threads EXCEPT ![t] = Returned(th)]
          /\ last' = [FormReturn(th, r) EXCEPT !.pay = IF p.ok THEN "ok" ELSE "failed",
                                               !.pay_id = p.id]

\* restock-ticket forms of concurrent sessions, call by call, with delivery
\* confirmations in between
NextForms ==
    \/ \E t \in Threads : FormCreateOrder(t)
    \/ \E t \in Threads : FormCreatePayment(t)
    \/ TicketSection

\* the forms that create accounts and their payment methods
NextAccounts ==
    \/ AddCustomerForm
    \/ SignupRetailPharmacist
    \/ SignupSupplier
    \/ ManagePayments

\* the handlers of the order workflow
NextOrder ==
    \/ AddOrderForm
    \/ AddNewDrug
    \/ LowStockPage

\* the handlers of the restock workflow
NextRestock ==
    \/ RestockTicketForm
    \/ TicketSection
    \/ ViewNotifications
    \/ SignupSupplier
    \/ AddNewDrug

Next ==
    \/ AddOrderForm
    \/ RestockTicketForm
    \/ TicketSection
    \/ ViewNotifications
    \/ AddNewDrug
    \/ LowStockPage
    \/ AddCustomerForm
    \/ SignupSupplier
    \/ SignupRetailPharmacist
    \/ ManagePayments
    \/ PharmacistDashboard
    \/ SupplierDashboard
    \/ Expire

\* the whole program
Spec == Init /\ [][Next]_vars

\* the program while only the order pages, or only the restock pages, are used
SpecOrder == Init /\ [][NextOrder]_vars

SpecRestock == Init /\ [][NextRestock]_vars

\* the restock pages used by sessions whose script runs interleave
SpecForms == Init /\ [][NextForms]_vars

\* the program while only the account forms are used
SpecAccounts == Init /\ [][NextAccounts]_vars

\* initialize_payment_methods over any small PaymentMethods table
SpecStartup == InitStartup /\ [][NextStartup]_vars

\* one browser session logging in and out
SpecSession == Init /\ [][NextSession]_vars

\* concurrent sessions on the one connection
SpecConcurrent == InitConcurrent /\ [][NextConcurrent]_vars

\* check_low_stock over any small Drugs table
SpecLowStock == InitLowStock /\ [][NextLowStock]_vars

\* ------------------------------------------------------------------ claims
\* the last call was add_new_order on a drug that exists
OrderCall == last.op = "add_new_order" /\ last.drug # 0

\* the messages add_new_order passes on from update_stock_after_order's handler,
\* and the message of its own handler for a store statement that raised
StockStepRaised == last.msg = "Error updating stock"

StoreRaised == last.msg \in {"Error updating stock", "Error"}

\* stock_no of the drug the last call names
StockNow == db.Drugs[last.drug].stock_no

\* C1 as stated: for every add_new_order call on an existing drug, stock >= q
\* before the call gives stock = prior - q after it; stock < q gives a failure
\* return, the stock unchanged and no Orders row of that call.
C1_EveryCallDecrements ==
    OrderCall =>
        IF last.pre.stock >= last.qty
        THEN StockNow = last.pre.stock - last.qty
        ELSE ~last.ok /\ StockNow = last.pre.stock /\ Len(db.Orders) = last.pre.nOrders

\* C1 amended: the same, for the calls in which no store statement of
\* update_stock_after_order raises; when one raises, the call returns failure,
\* creates no Orders row and leaves the stock at the prior value or, when it
\* was the commit that raised, at the prior value minus q.
C1_StockDecreasesByQuantity ==
    OrderCall =>
        IF StockStepRaised
        THEN /\ ~last.ok
             /\ Len(db.Orders) = last.pre.nOrders
             /\ StockNow \in {last.pre.stock, last.pre.stock - last.qty}
        ELSE IF last.pre.stock >= last.qty
        THEN StockNow = last.pre.stock - last.qty
        ELSE ~last.ok /\ StockNow = last.pre.stock /\ Len(db.Orders) = last.pre.nOrders

\* C1 witness: a call with enough stock has decremented it, the stock equalled
\* the quantity
C1_Witness ==
    /\ OrderCall
    /\ ~StockStepRaised
    /\ last.pre.stock = last.qty
    /\ StockNow = 0

\* C2: a failure return of add_new_order leaves the drug's stock and the
\* Orders and Payments tables as they were before the call.
C2_FailureLeavesNoPartialState ==
    (OrderCall /\ ~last.ok) =>
        /\ StockNow = last.pre.stock
        /\ Len(db.Orders) = last.pre.nOrders
        /\ Len(db.Payments) = last.pre.nPayments

\* C3: an add_new_order call on an existing drug with enough stock, no store
\* statement raising, returns success with one new Orders row and one new
\* Pending Payments row of Amount price * quantity that names the order id.
C3_OrderCreatesPendingPayment ==
    (OrderCall /\ ~StoreRaised /\ last.pre.stock >= last.qty) =>
        /\ last.ok
        /\ Len(db.Orders) = last.pre.nOrders + 1
        /\ Len(db.Payments) = last.pre.nPayments + 1
        /\ LET p == db.Payments[Len(db.Payments)]
           IN  /\ p.Status = "Pending"
               /\ p.Amount = db.Drugs[last.drug].D_Price * last.qty
               /\ p.Notes = Tag("Order ID", Len(db.Orders))

\* the last call was a delivery confirmation that returned success
Delivered == last.op = "update_drug_stock" /\ last.ok

\* the RestockOrders rows of a drug
OrdersOf(d, drug_id) == {r \in Ids(d.RestockOrders) : d.RestockOrders[r].DrugID = drug_id}

\* C4: after a successful update_drug_stock(d), stock_no(d) is 200, every
\* RestockOrder for d is Delivered with PaymentStatus Completed, and every
\* Ticket that references one of them is Closed.
C4_DeliveryRestocksAndCloses ==
    Delivered =>
        /\ \A i \in Ids(db.Drugs) :
             db.Drugs[i].D_id = last.drug => db.Drugs[i].stock_no = RestockLevel
        /\ \A r \in OrdersOf(db, last.drug) :
             /\ db.RestockOrders[r].Status = "Delivered"
             /\ db.RestockOrders[r].PaymentStatus = "Completed"
        /\ \A t \in Ids(db.Tickets) :
             db.Tickets[t].RestockID \in OrdersOf(db, last.drug)
                 => db.Tickets[t].Status = "Closed"

\* C4 witness: a confirmation for a drug below 200 that has two RestockOrders
\* of different quantities, each with its Ticket
C4_Witness ==
    /\ Delivered
    /\ last.pre.stock < RestockLevel
    /\ \E r1, r2 \in OrdersOf(db, last.drug) :
         /\ db.RestockOrders[r1].Quantity # db.RestockOrders[r2].Quantity
         /\ \E t1, t2 \in Ids(db.Tickets) :
              db.Tickets[t1].RestockID = r1 /\ db.Tickets[t2].RestockID = r2

\* the last call was a restock-ticket form whose create_restock_order
\* returned success
Restocked == last.op = "restock_ticket_form" /\ last.ok

\* C5: a successful create_restock_order inserts one RestockOrders row, with
\* Status Pending, and one Tickets row, Open, whose RestockID is the new
\* restock id and whose SupplierID is the given supplier; it returns that id.
C5_RestockOrderWithItsTicket ==
    Restocked =>
        /\ Len(db.RestockOrders) = last.pre.nRestock + 1
        /\ Len(db.Tickets) = last.pre.nTickets + 1
        /\ last.id = Len(db.RestockOrders)
        /\ db.RestockOrders[last.id].Status = "Pending"
        /\ db.RestockOrders[last.id].SupplierID = last.sup
        /\ db.RestockOrders[last.id].Quantity = last.qty
        /\ LET t == db.Tickets[Len(db.Tickets)]
           IN  t.RestockID = last.id /\ t.SupplierID = last.sup /\ t.Status = "Open"

\* C5 witness: a successful create_restock_order after an earlier
\* RestockOrder was left without a Ticket: restock id 2, ticket id 1
C5_Witness ==
    /\ Restocked
    /\ last.id = 2
    /\ Len(db.Tickets) = 1

\* C6: in every committed state each RestockOrder is referenced by exactly one
\* Ticket and each Ticket references an existing RestockOrder of its supplier.
C6_TicketsPairedOneToOne ==
    /\ \A r \in Ids(disk.RestockOrders) :
         Cardinality({t \in Ids(disk.Tickets) : disk.Tickets[t].RestockID = r}) = 1
    /\ \A t \in Ids(disk.Tickets) :
         /\ disk.Tickets[t].RestockID \in Ids(disk.RestockOrders)
         /\ disk.RestockOrders[disk.Tickets[t].RestockID].SupplierID
                = disk.Tickets[t].SupplierID

\* the restock-ticket form has created a Payment: the row was inserted and
\* committed by its create_restock_payment
PaymentCreated ==
    /\ Restocked
    /\ Len(db.Payments) = last.pre.nPayments + 1
    /\ Len(disk.Payments) = Len(db.Payments)

\* C7: the Payment the restock-ticket form creates has Amount D_Price *
\* quantity, Status Pending and TransactionReference Restock-<the new restock
\* id>, and the RestockOrder's PaymentStatus is the Payment's Status.
C7_RestockPaymentOfTheOrder ==
    PaymentCreated =>
        LET p == db.Payments[Len(db.Payments)]
        IN  /\ p.Amount = db.Drugs[last.drug].D_Price * last.qty
            /\ p.Status = "Pending"
            /\ p.SupplierID = last.sup
            /\ p.TransactionReference = Tag("Restock", last.id)
            /\ db.RestockOrders[last.id].PaymentStatus = p.Status

\* C7 witness: a Payment created for the second RestockOrder when the first
\* has none
C7_Witness ==
    /\ PaymentCreated
    /\ last.pay = "ok"
    /\ last.id = 2
    /\ last.pay_id = 1
    /\ db.Payments[1].Amount = 1000

\* the restock Payments of a store
RestockPayments(d) ==
    {p \in Ids(d.Payments) : d.Payments[p].TransactionReference[1] = "Restock"}

\* C8: in every committed state every restock Payment has a
\* SupplierNotifications row for its supplier with RelatedEntityType Payment
\* and RelatedEntityID the payment id.
C8_RestockPaymentNotified ==
    \A p \in RestockPayments(disk) :
        \E n \in Ids(disk.SupplierNotifications) :
            /\ disk.SupplierNotifications[n].SupplierID = disk.Payments[p].SupplierID
            /\ disk.SupplierNotifications[n].RelatedEntityType = "Payment"
            /\ disk.SupplierNotifications[n].RelatedEntityID = p

\* the last call changed a drug's stock_no and returned success: an order
\* whose update_stock_after_order succeeded, a delivery confirmation, a new drug
StockChanged ==
    \/ /\ OrderCall
       /\ last.msg \notin {"Drug not found.", "Not enough stock available.",
                           "Error updating stock"}
    \/ Delivered
    \/ last.op = "add_new_drug"

\* C9: after a successful operation that changes a stock_no, check_low_stock
\* returns exactly the drugs whose stock_no is <= 100 now.
C9_LowStockFreshAfterStockChange ==
    StockChanged => Fetch(Cur, "check_low_stock") = LowStockRows(db.Drugs)

\* the cache entries of the tables the last call wrote and returned success
\* for: Drugs (fetch_all_drugs, check_low_stock), Orders, Payments, Tickets,
\* RestockOrders, SupplierNotifications, Customers, Suppliers
WrittenKeys ==
    CASE StockChanged /\ OrderCall ->
             {<<"fetch_all_drugs", 0>>, <<"check_low_stock", 0>>}
             \cup (IF last.ok THEN {<<"fetch_all_orders", 0>>, <<"fetch_all_payments", 0>>}
                   ELSE {})
      [] Delivered ->
             {<<"fetch_all_drugs", 0>>, <<"check_low_stock", 0>>, <<"fetch_all_tickets", 0>>,
              <<"fetch_all_restock_orders", 0>>}
      [] Restocked ->
             {<<"fetch_all_tickets", 0>>, <<"fetch_all_restock_orders", 0>>}
             \cup (IF last.pay = "ok"
                   THEN {<<"fetch_all_payments", 0>>,
                         <<"fetch_supplier_notifications", last.sup>>}
                   ELSE {})
      [] last.op = "add_new_customer" /\ last.ok -> {<<"fetch_all_customers", 0>>}
      [] last.op = "add_new_supplier" /\ last.ok -> {<<"fetch_all_suppliers", 0>>}
      [] OTHER -> {}

\* C10: after a workflow function returns success, no cached accessor of a
\* table it wrote returns a snapshot older than that write.
C10_NoStaleAccessorAfterWrite ==
    \A k \in WrittenKeys : FetchFor(Cur, k[1], k[2]) = Query(db, k[1], k[2])

\* the last call was check_low_stock() and ran the query (a cache miss)
LowStockMiss == last.op = "check_low_stock" /\ ~last.hit

\* C11: on a cache miss check_low_stock returns exactly the drugs whose
\* stock_no is at or below 100: every drug with stock_no <= 100, the ones at
\* exactly 100 included, and no drug with stock_no >= 101.
C11_LowStockAtOrBelow100 ==
    LowStockMiss =>
        /\ \A i \in Ids(db.Drugs) :
             db.Drugs[i].stock_no <= 100 => \E k \in Ids(last.ret) : last.ret[k] = db.Drugs[i]
        /\ \A k \in Ids(last.ret) :
             /\ last.ret[k].stock_no < 101
             /\ \E i \in Ids(db.Drugs) : last.ret[k] = db.Drugs[i]
        /\ Len(last.ret) = Cardinality({i \in Ids(db.Drugs) : db.Drugs[i].stock_no <= 100})

\* C11 witness: a miss on a table with a drug at 100 and a drug at 101: the
\* first is returned, the second is not
C11_Witness ==
    /\ LowStockMiss
    /\ \E i, j \in Ids(db.Drugs) :
         /\ db.Drugs[i].stock_no = 100
         /\ db.Drugs[j].stock_no = 101
         /\ \E k \in Ids(last.ret) : last.ret[k] = db.Drugs[i]
         /\ \A k \in Ids(last.ret) : last.ret[k] # db.Drugs[j]

\* C12: every RestockOrder the restock-ticket form creates is for a drug whose
\* stock_no is at or below 100 when the form is submitted.
C12_RestockOnlyLowStock ==
    Restocked => last.pre.stock <= 100

\* the account-creating calls
AccountOps == {"add_new_customer", "add_new_supplier", "add_new_retail_pharmacist"}

\* the rows of the account tables, as the connection sees them
AccountRows(d) ==
    <<Len(d.Customers), Len(d.Suppliers), Len(d.RetailPharmacies), Len(d.PharmacyPayments)>>

\* C13: an account-creating call that returns failure, for an email that
\* exists (message 'Email already exists') or for any other reason, has
\* inserted no row: Customers, Suppliers, RetailPharmacies and
\* PharmacyPayments hold the rows they held before the call.
C13_FailureInsertsNoAccountRow ==
    [][(last'.op \in AccountOps /\ ~last'.ok) => AccountRows(db') = AccountRows(db)]_vars

\* C14: a call of a workflow function in which a store statement raises
\* returns a result whose success flag is False, from every reachable store,
\* for every input and every statement f of the call that may raise.
C14_StoreFailureReturnsFalse ==
    /\ \A pid \in Ids(db.RetailPharmacies), m \in Ids(db.PaymentMethods), f \in 1..2 :
         ~add_pharmacy_payment(Cur, pid, m, TRUE, f).ok
    /\ \A pid \in Ids(db.RetailPharmacies), sid \in Ids(db.Suppliers),
          rid \in Ids(db.RestockOrders), f \in 1..5 :
         ~create_restock_payment(Cur, pid, sid, 500, 1, rid, "Pending", "", f).ok
    /\ \A pid \in Ids(db.RetailPharmacies), sid \in Ids(db.Suppliers),
          d \in Ids(db.Drugs), q \in Quantities, f \in 1..3 :
         ~create_restock_order(Cur, sid, d, q, pid, f).ok
    /\ \A d \in Ids(db.Drugs), f \in 1..4 : ~update_drug_stock(Cur, d, f).ok
    /\ \A name \in DrugNames, q \in Quantities, f \in 1..3 :
         ~update_stock_after_order(Cur, name, q, f).ok
    /\ \A pid \in Ids(db.RetailPharmacies), name \in DrugNames, q \in Quantities, f \in 1..5 :
         ~add_new_order(Cur, pid, name, q, "COD", f).ok
    /\ \A email \in Emails, f \in 1..2 : ~add_new_customer(Cur, email, f).ok
    /\ \A email \in Emails, f \in 1..2 : ~add_new_supplier(Cur, email, f).ok
    /\ \A email \in Emails, f \in 1..5 : ~add_new_retail_pharmacist(Cur, email, f).ok

\* the last call was initialize_payment_methods()
Seeded == last.op = "initialize_payment_methods"

\* C15: initialize_payment_methods run on an empty PaymentMethods table
\* inserts exactly the methods COD, UPI, Net Banking and Studd; run on a
\* non-empty table, also right after an earlier run, it leaves the table as
\* it was.
C15_SeedingIdempotent ==
    [][Seeded' =>
         IF Len(db.PaymentMethods) = 0
         THEN db'.PaymentMethods = <<"COD", "UPI", "Net Banking", "Studd">>
         ELSE db'.PaymentMethods = db.PaymentMethods]_vars

\* C15 witness: a run that found the table empty has seeded and committed the
\* four methods
C15_Witness ==
    /\ Seeded
    /\ last.ret = <<0>>
    /\ Len(disk.PaymentMethods) = 4

\* C16: in every reachable state every RestockOrder has Status Pending or
\* Delivered, every Ticket has Status Open or Closed, and every Payment has
\* Status Pending, Completed or Failed.
C16_StatusDomains ==
    /\ \A r \in Ids(db.RestockOrders) : db.RestockOrders[r].Status \in {"Pending", "Delivered"}
    /\ \A k \in Ids(db.Tickets) : db.Tickets[k].Status \in {"Open", "Closed"}
    /\ \A p \in Ids(db.Payments) : db.Payments[p].Status \in {"Pending", "Completed", "Failed"}

\* C16 witness: after a delivery confirmation, a Delivered order with its
\* Closed ticket next to a Pending order with its Open ticket, and a Payment
C16_Witness ==
    /\ \E r1, r2 \in Ids(db.RestockOrders) :
         /\ db.RestockOrders[r1].Status = "Delivered"
         /\ db.RestockOrders[r2].Status = "Pending"
         /\ \E k1, k2 \in Ids(db.Tickets) :
              /\ db.Tickets[k1].RestockID = r1 /\ db.Tickets[k1].Status = "Closed"
              /\ db.Tickets[k2].RestockID = r2 /\ db.Tickets[k2].Status = "Open"
    /\ Len(db.Payments) > 0

\* the tables of the store
Tables ==
    {"Drugs", "Customers", "Orders", "Suppliers", "RetailPharmacies", "RestockOrders",
     "Tickets", "Payments", "PaymentMethods", "PharmacyPayments", "SupplierNotifications"}

\* C17: rows are never deleted: from one committed state to the next, every
\* table keeps every row id it had (the ids of a table are 1..its length).
C17_RowsNeverDeleted ==
    [][\A tb \in Tables : Ids(disk[tb]) \subseteq Ids(disk'[tb])]_vars

\* C17 witness: a committed state after View Notifications has marked a
\* supplier's notification read, the row still there, with a delivered order
C17_Witness ==
    /\ \E n \in Ids(disk.SupplierNotifications) : disk.SupplierNotifications[n].IsRead
    /\ \E r \in Ids(disk.RestockOrders) : disk.RestockOrders[r].Status = "Delivered"
    /\ last.op = "view_notifications"

\* the calls that log a role in when they succeed
PharmacistLogins == {"login_retail_pharmacist", "add_new_retail_pharmacist"}

SupplierLogins == {"login_supplier", "add_new_supplier"}

\* C18: after logout neither login flag is set, whichever were set before;
\* a role's menu is rendered only while its flag is set, and a flag becomes
\* set only by a successful login or signup of that role.
C18_LogoutClearsBothRoles ==
    [][/\ last'.op = "logout" =>
            ~session'.retail_pharmacist_logged_in /\ ~session'.supplier_logged_in
       /\ last'.op = "pharmacist_menu" => session'.retail_pharmacist_logged_in
       /\ last'.op = "supplier_menu" => session'.supplier_logged_in
       /\ (session'.retail_pharmacist_logged_in /\ ~session.retail_pharmacist_logged_in)
             => (last'.op \in PharmacistLogins /\ last'.ok)
       /\ (session'.supplier_logged_in /\ ~session.supplier_logged_in)
             => (last'.op \in SupplierLogins /\ last'.ok)]_vars

\* C18 witness: a logout that ran while both roles were logged in
C18_Witness ==
    /\ last.op = "logout"
    /\ last.pharm # 0
    /\ last.sup # 0
    /\ ~session.retail_pharmacist_logged_in
    /\ ~session.supplier_logged_in

\* C19: in every reachable state every drug's stock_no is >= 0, the drugs
\* starting at stock_no >= 0 and every order quantity being >= 1.
C19_StockNeverNegative ==
    \A i \in Ids(db.Drugs) : db.Drugs[i].stock_no >= 0

\* C20: a successful delivery confirmation triggered for the open ticket
\* last'.id changes no RestockOrder other than the one that ticket references
\* and no Ticket that references another RestockOrder.
C20_ConfirmationTouchesOnlyItsOrder ==
    [][(last'.op = "update_drug_stock" /\ last'.ok) =>
          LET rid == db.Tickets[last'.id].RestockID
          IN  /\ \A r \in Ids(db.RestockOrders) :
                    r # rid => db'.RestockOrders[r] = db.RestockOrders[r]
              /\ \A t \in Ids(db.Tickets) :
                    db.Tickets[t].RestockID # rid => db'.Tickets[t] = db.Tickets[t]]_vars

\* C21: a call of update_drug_stock leaves every row of the Payments table
\* unchanged; when it succeeds every RestockOrder of the drug has PaymentStatus
\* Completed while the Payment with TransactionReference Restock-<its id>
\* keeps the Status it had before.
C21_ConfirmationLeavesPayments ==
    [][last'.op = "update_drug_stock" =>
          /\ db'.Payments = db.Payments
          /\ last'.ok =>
                \A r \in OrdersOf(db', last'.drug) :
                    /\ db'.RestockOrders[r].PaymentStatus = "Completed"
                    /\ \A p \in Ids(db.Payments) :
                          db.Payments[p].TransactionReference = Tag("Restock", r)
                              => db'.Payments[p].Status = db.Payments[p].Status]_vars

\* C21 witness: after a confirmation, a RestockOrder of the drug is Completed
\* and its Payment, created by the restock-ticket form, is still Pending
C21_Witness ==
    /\ Delivered
    /\ \E r \in OrdersOf(db, last.drug), p \in Ids(db.Payments) :
          /\ db.Payments[p].TransactionReference = Tag("Restock", r)
          /\ db.Payments[p].Status = "Pending"
          /\ db.RestockOrders[r].PaymentStatus = "Completed"

\* the one-way statuses of a store between two states
OneWay(d, e) ==
    /\ \A t \in Ids(d.Tickets) :
          d.Tickets[t].Status = "Closed" => e.Tickets[t].Status = "Closed"
    /\ \A r \in Ids(d.RestockOrders) :
          /\ d.RestockOrders[r].Status = "Delivered"
                => e.RestockOrders[r].Status = "Delivered"
          /\ d.RestockOrders[r].PaymentStatus = "Completed"
                => e.RestockOrders[r].PaymentStatus = "Completed"

\* C22: across every step a Closed Ticket stays Closed, a Delivered
\* RestockOrder stays Delivered and a RestockOrder whose PaymentStatus is
\* Completed keeps it, in the connection's view and in the committed one.
C22_StatusOneWay ==
    [][OneWay(db, db') /\ OneWay(disk, disk')]_vars

=============================================================================
